---- MODULE Spec2Model ----
(***************************************************************************)
(* Model of generate_sitemaps.py: iter_links streams the link column of a  *)
(* CSV in chunks, main batches the yielded URLs into sitemap part files    *)
(* and finally writes the sitemap index.                                   *)
(*                                                                         *)
(* Strings are sequences of one-character strings, so that strip, replace, *)
(* rstrip and the 05d format are computed character by character.          *)
(***************************************************************************)
EXTENDS Integers, Sequences, FiniteSets, TLC

VARIABLES
    column,        \* the link column of the CSV source, one cell per row
    args,          \* argparse namespace: per_file, public_base_url, basename
    pc,            \* where main is: "start", "loop", "final", "check", "done", "exited"
    err,           \* the exception that ended the run, "none" while there is none
    pos,           \* rows of the source the chunk reader has consumed
    pending,       \* URLs of the current chunk that iter_links has not yielded yet
    buf,           \* main's buf
    part,          \* main's part
    part_names,    \* main's part_names
    files,         \* part files written by this run, in order: [name, locs]
    index,         \* the index file written by this run, or NoIndex
    indexWrites,   \* number of times this run opened the index file for writing
    clock,         \* UTC wall clock, in whole seconds
    lastPartTime,  \* clock value when the latest part file was written, 0 before any
    u,             \* write_urlset_xml: the URL being written (escape-only specification)
    loc,           \* write_urlset_xml: the <loc> text written for u
    escaped        \* write_urlset_xml: whether line 33 has run for u

vars == <<column, args, pc, err, pos, pending, buf, part, part_names, files,
          index, indexWrites, clock, lastPartTime, u, loc, escaped>>

runVars == <<column, args, pc, err, pos, pending, buf, part, part_names, files,
             index, indexWrites, clock, lastPartTime>>

escVars == <<u, loc, escaped>>

----------------------------------------------------------------------------
(* Bounds of the model *)

MaxRows == 3

MaxLimit == 2

ChunkRows == 2

MaxClock == 1

MaxEscLen == 4

----------------------------------------------------------------------------
(* Input domains *)

\* pandas NaN: a marker that is no text of a cell
NA == <<"NaN">>

NoIndex == [exists |-> FALSE, entries |-> << >>]

Whitespace == {" ", "\t", "\n", "\r"}

UrlPadded == <<" ", "\t", "a", "?", "b", "=", "1", "&", "c", "<", "2", " ">>

UrlFragment == <<"h", "t", "t", "p", ":", "/", "/", "L", "e", "e", "l", "a", "D", "i", "a", "m", "o", "n", "d", ".", "c", "o", "m", "/", "i", "t", "e", "m", "?", "x", "=", "1", "#", "f", "r", "a", "g">>

\* Cells of the column as pandas delivers them with dtype=str: NA for a
\* missing value (an empty cell reads as NA), otherwise the text of the cell.
Cells == {NA, <<"\t", " ">>, UrlPadded, UrlFragment}

RECURSIVE SeqsUpTo(_, _)
SeqsUpTo(S, n) ==
    IF n = 0 THEN {<< >>}
    ELSE LET shorter == SeqsUpTo(S, n - 1)
         IN  shorter \cup {Append(s, x) : s \in shorter, x \in S}

Columns == SeqsUpTo(Cells, MaxRows)

PerFileValues == (-1)..MaxLimit

PublicBaseUrls ==
    { <<"h", "/", "s">>, <<"h", "/", "s", "/">>, <<"h", "/", "s", "/", "/">> }

Basenames == { <<"p", "-">> }

EscAlphabet == {"&", "<", ">", "l", "t", ";"}

EscStrings == SeqsUpTo(EscAlphabet, MaxEscLen)

----------------------------------------------------------------------------
(* iter_links *)

RECURSIVE LStrip(_)
LStrip(s) ==
    IF s = << >> THEN << >>
    ELSE IF Head(s) \in Whitespace THEN LStrip(Tail(s)) ELSE s

RECURSIVE RStrip(_)
RStrip(s) ==
    IF s = << >> THEN << >>
    ELSE IF s[Len(s)] \in Whitespace THEN RStrip(SubSeq(s, 1, Len(s) - 1)) ELSE s

\* str.strip()
Strip(s) == RStrip(LStrip(s))

\* chunk[link_col].dropna().astype(str).str.strip(), then s[s.ne("")].tolist()
RECURSIVE ChunkLinksKeepBlank(_)
ChunkLinksKeepBlank(chunk) ==
    IF chunk = << >> THEN << >>
    ELSE IF Head(chunk) = NA THEN ChunkLinksKeepBlank(Tail(chunk))
    ELSE <<Strip(Head(chunk))>> \o ChunkLinksKeepBlank(Tail(chunk))

RECURSIVE ChunkLinks(_)
ChunkLinks(chunk) ==
    IF chunk = << >> THEN << >>
    ELSE IF Head(chunk) = NA THEN ChunkLinks(Tail(chunk))
    ELSE LET s == Strip(Head(chunk))
         IN  IF s = << >> THEN ChunkLinks(Tail(chunk))
             ELSE <<s>> \o ChunkLinks(Tail(chunk))

\* The rows of the next chunk of at most ChunkRows rows.
NextChunkRows(col, p) ==
    SubSeq(col, p + 1, IF p + ChunkRows <= Len(col) THEN p + ChunkRows ELSE Len(col))

----------------------------------------------------------------------------
(* write_urlset_xml *)

\* str.replace(old, new) for a one-character old
RECURSIVE Replace(_, _, _)
Replace(s, old, new) ==
    IF s = << >> THEN << >>
    ELSE (IF Head(s) = old THEN new ELSE <<Head(s)>>) \o Replace(Tail(s), old, new)

AmpEntity == <<"&", "a", "m", "p", ";">>

LtEntity == <<"&", "l", "t", ";">>

GtEntity == <<"&", "g", "t", ";">>

EscapeAmpLast(url) ==
    Replace(Replace(Replace(url, "<", LtEntity), ">", GtEntity), "&", AmpEntity)

\* u.replace("&", "&amp;").replace("<", "&lt;").replace(">", "&gt;")
Escape(url) ==
    Replace(Replace(Replace(url, "&", AmpEntity), "<", LtEntity), ">", GtEntity)

\* The <loc> texts of the urlset document written for urls.
UrlsetLocs(urls) == [i \in 1..Len(urls) |-> Escape(urls[i])]

----------------------------------------------------------------------------
(* main: part file names *)

Digit == <<"0", "1", "2", "3", "4", "5", "6", "7", "8", "9">>

RECURSIVE Decimal(_)
Decimal(n) ==
    IF n < 10 THEN <<Digit[n + 1]>>
    ELSE Decimal(n \div 10) \o <<Digit[(n % 10) + 1]>>

RECURSIVE ZeroPad(_, _)
ZeroPad(s, width) ==
    IF Len(s) >= width THEN s ELSE ZeroPad(<<"0">> \o s, width)

\* f"{part:05d}" for part >= 0
Format05d(n) == ZeroPad(Decimal(n), 5)

XmlSuffix == <<".", "x", "m", "l">>

\* f"{args.basename}{part:05d}.xml"
PartName(basename, n) == basename \o Format05d(n) \o XmlSuffix

SamePart(n) == n

\* part += 1
NextPart(n) == n + 1

----------------------------------------------------------------------------
(* write_index_xml *)

KeepSlash(s) == s

\* base_url.rstrip("/")
RECURSIVE RStripSlash(_)
RStripSlash(s) ==
    IF s = << >> THEN << >>
    ELSE IF s[Len(s)] = "/" THEN RStripSlash(SubSeq(s, 1, Len(s) - 1)) ELSE s

EpochNow(t) == 0

\* dt.datetime.utcnow().replace(microsecond=0): the clock in whole seconds
Now(t) == t

\* The index document: its <sitemap> entries.
IndexEntries(base_url, names, t) ==
    LET base == RStripSlash(base_url)
        now  == Now(t)
    IN  [exists |-> TRUE,
         entries |-> [i \in 1..Len(names) |->
                        [loc |-> base \o <<"/">> \o names[i], lastmod |-> now]]]

----------------------------------------------------------------------------
(* main *)

SwallowProducerError == "final"

\* An exception raised inside iter_links leaves the for loop of main and main.
AfterProducerError == "exited"

IndexAnyway(names) == FALSE

\* if not part_names: raise SystemExit(...)
NoParts(names) == names = << >>

InitRun ==
    /\ column \in Columns
    /\ args \in [per_file : PerFileValues,
                 public_base_url : PublicBaseUrls,
                 basename : Basenames]
    /\ pc = "start"
    /\ err = "none"
    /\ pos = 0
    /\ pending = << >>
    /\ buf = << >>
    /\ part = 1
    /\ part_names = << >>
    /\ files = << >>
    /\ index = NoIndex
    /\ indexWrites = 0
    /\ clock = 0
    /\ lastPartTime = 0

Init ==
    /\ InitRun
    /\ u = << >>
    /\ loc = << >>
    /\ escaped = FALSE

\* First next() on the generator: pd.read_csv opens the source and checks usecols.
OpenSource ==
    /\ UNCHANGED escVars
    /\ pc = "start"
    /\ pc' = "loop"
    /\ UNCHANGED <<column, args, err, pos, pending, buf, part, part_names, files,
                   index, indexWrites, clock, lastPartTime>>

\* pd.read_csv raises: the source cannot be opened, or link_col is not a column.
OpenSourceError ==
    /\ UNCHANGED escVars
    /\ pc = "start"
    /\ \E e \in {"io_error", "missing_column"} : err' = e
    /\ pc' = AfterProducerError
    /\ UNCHANGED <<column, args, pos, pending, buf, part, part_names, files,
                   index, indexWrites, clock, lastPartTime>>

\* The generator needs another chunk: it reads one, or the source is exhausted
\* and the for loop of main ends.
NextChunk ==
    /\ UNCHANGED escVars
    /\ pc = "loop"
    /\ pending = << >>
    /\ IF pos < Len(column)
       THEN LET chunk == NextChunkRows(column, pos)
            IN  /\ pending' = ChunkLinks(chunk)
                /\ pos' = pos + Len(chunk)
                /\ pc' = pc
       ELSE /\ pc' = "final"
            /\ UNCHANGED <<pending, pos>>
    /\ UNCHANGED <<column, args, err, buf, part, part_names, files,
                   index, indexWrites, clock, lastPartTime>>

\* Reading a chunk fails.
NextChunkError ==
    /\ UNCHANGED escVars
    /\ pc = "loop"
    /\ pending = << >>
    /\ err' = "io_error"
    /\ pc' = AfterProducerError
    /\ UNCHANGED <<column, args, pos, pending, buf, part, part_names, files,
                   index, indexWrites, clock, lastPartTime>>

\* One iteration of the for loop of main, the part file (if any) written.
LoopBody ==
    /\ UNCHANGED escVars
    /\ pc = "loop"
    /\ pending # << >>
    /\ pending' = Tail(pending)
    /\ LET b == Append(buf, Head(pending))
       IN  IF Len(b) >= args.per_file
           THEN LET name == PartName(args.basename, part)
                IN  /\ files' = Append(files, [name |-> name, locs |-> UrlsetLocs(b)])
                    /\ lastPartTime' = clock
                    /\ part_names' = Append(part_names, name)
                    /\ buf' = << >>
                    /\ part' = NextPart(part)
           ELSE /\ buf' = b
                /\ UNCHANGED <<files, lastPartTime, part_names, part>>
    /\ UNCHANGED <<column, args, pc, err, pos, index, indexWrites, clock>>

\* One iteration of the for loop of main in which write_urlset_xml raises.
\* files lists the part files whose write_urlset_xml call returned; what a
\* failed call leaves on disk is never recorded in part_names.
LoopBodyWriteError ==
    /\ UNCHANGED escVars
    /\ pc = "loop"
    /\ pending # << >>
    /\ Len(buf) + 1 >= args.per_file
    /\ pending' = Tail(pending)
    /\ buf' = Append(buf, Head(pending))
    /\ err' = "write_error"
    /\ pc' = "exited"
    /\ UNCHANGED <<column, args, pos, part, part_names, files,
                   index, indexWrites, clock, lastPartTime>>

\* if buf: the remainder is written.
FinalFlush ==
    /\ UNCHANGED escVars
    /\ pc = "final"
    /\ IF buf # << >>
       THEN LET name == PartName(args.basename, part)
            IN  /\ files' = Append(files, [name |-> name, locs |-> UrlsetLocs(buf)])
                /\ lastPartTime' = clock
                /\ part_names' = Append(part_names, name)
       ELSE UNCHANGED <<files, lastPartTime, part_names>>
    /\ pc' = "check"
    /\ UNCHANGED <<column, args, err, pos, pending, buf, part,
                   index, indexWrites, clock>>

\* if buf: write_urlset_xml raises.
FinalFlushWriteError ==
    /\ UNCHANGED escVars
    /\ pc = "final"
    /\ buf # << >>
    /\ err' = "write_error"
    /\ pc' = "exited"
    /\ UNCHANGED <<column, args, pos, pending, buf, part, part_names, files,
                   index, indexWrites, clock, lastPartTime>>

\* if not part_names: raise SystemExit
ExitEmpty ==
    /\ UNCHANGED escVars
    /\ pc = "check"
    /\ NoParts(part_names)
    /\ err' = "empty_result"
    /\ pc' = "exited"
    /\ UNCHANGED <<column, args, pos, pending, buf, part, part_names, files,
                   index, indexWrites, clock, lastPartTime>>

\* write_index_xml(...), then the OK message.
WriteIndex ==
    /\ UNCHANGED escVars
    /\ pc = "check"
    /\ ~NoParts(part_names)
    /\ index' = IndexEntries(args.public_base_url, part_names, clock)
    /\ indexWrites' = indexWrites + 1
    /\ pc' = "done"
    /\ UNCHANGED <<column, args, err, pos, pending, buf, part, part_names, files,
                   clock, lastPartTime>>

\* write_index_xml raises.
WriteIndexError ==
    /\ UNCHANGED escVars
    /\ pc = "check"
    /\ ~NoParts(part_names)
    /\ indexWrites' = indexWrites + 1
    /\ err' = "write_error"
    /\ pc' = "exited"
    /\ UNCHANGED <<column, args, pos, pending, buf, part, part_names, files,
                   index, clock, lastPartTime>>

\* A second passes while the run is in progress.
Tick ==
    /\ UNCHANGED escVars
    /\ pc \notin {"done", "exited"}
    /\ clock < MaxClock
    /\ clock' = clock + 1
    /\ UNCHANGED <<column, args, pc, err, pos, pending, buf, part, part_names, files,
                   index, indexWrites, lastPartTime>>

\* The program is run again on the same source with the same arguments: every
\* local of main starts afresh.
NewRun ==
    /\ UNCHANGED escVars
    /\ pc \in {"done", "exited"}
    /\ pc' = "start"
    /\ err' = "none"
    /\ pos' = 0
    /\ pending' = << >>
    /\ buf' = << >>
    /\ part' = 1
    /\ part_names' = << >>
    /\ files' = << >>
    /\ index' = NoIndex
    /\ indexWrites' = 0
    /\ lastPartTime' = 0
    /\ UNCHANGED <<column, args, clock>>

Next ==
    \/ OpenSource
    \/ OpenSourceError
    \/ NextChunk
    \/ NextChunkError
    \/ LoopBody
    \/ LoopBodyWriteError
    \/ FinalFlush
    \/ FinalFlushWriteError
    \/ ExitEmpty
    \/ WriteIndex
    \/ WriteIndexError
    \/ Tick
    \/ NewRun

Spec == Init /\ [][Next]_vars

----------------------------------------------------------------------------
(* write_urlset_xml on its own: line 33 applied to an arbitrary URL string *)

InitEscape ==
    /\ column = << >>
    /\ args = [per_file |-> 1, public_base_url |-> <<"h">>, basename |-> <<"p">>]
    /\ pc = "start"
    /\ err = "none"
    /\ pos = 0
    /\ pending = << >>
    /\ buf = << >>
    /\ part = 1
    /\ part_names = << >>
    /\ files = << >>
    /\ index = NoIndex
    /\ indexWrites = 0
    /\ clock = 0
    /\ lastPartTime = 0
    /\ u \in EscStrings
    /\ loc = << >>
    /\ escaped = FALSE

EscapeLoc ==
    /\ ~escaped
    /\ loc' = Escape(u)
    /\ escaped' = TRUE
    /\ UNCHANGED u
    /\ UNCHANGED runVars

NextEscape == EscapeLoc

SpecEscape == InitEscape /\ [][NextEscape]_vars

----------------------------------------------------------------------------
(* Vocabulary of the properties, stated without the operators of the model *)

IsBlank(s) == \A k \in 1..Len(s) : s[k] \in Whitespace

\* s without its leading and trailing whitespace.
Trimmed(s) ==
    IF IsBlank(s) THEN << >>
    ELSE LET i == CHOOSE i \in 1..Len(s) :
                     s[i] \notin Whitespace /\ \A k \in 1..(i - 1) : s[k] \in Whitespace
             j == CHOOSE j \in 1..Len(s) :
                     s[j] \notin Whitespace /\ \A k \in (j + 1)..Len(s) : s[k] \in Whitespace
         IN  SubSeq(s, i, j)

IsUsable(cell) == cell # NA /\ ~IsBlank(cell)

\* The source values in source order, trimmed, the missing and blank ones removed.
UsableLinks(col) ==
    LET kept == SelectSeq(col, IsUsable)
    IN  [i \in 1..Len(kept) |-> Trimmed(kept[i])]

StartsWith(s, prefix) ==
    Len(s) >= Len(prefix) /\ SubSeq(s, 1, Len(prefix)) = prefix

EndsWith(s, suffix) ==
    Len(s) >= Len(suffix) /\ SubSeq(s, Len(s) - Len(suffix) + 1, Len(s)) = suffix

IsPrefix(s, t) == StartsWith(t, s)

\* The text an XML parser reads from an element's character data.
RECURSIVE XmlText(_)
XmlText(s) ==
    IF s = << >> THEN << >>
    ELSE IF StartsWith(s, <<"&", "a", "m", "p", ";">>)
         THEN <<"&">> \o XmlText(SubSeq(s, 6, Len(s)))
    ELSE IF StartsWith(s, <<"&", "l", "t", ";">>)
         THEN <<"<">> \o XmlText(SubSeq(s, 5, Len(s)))
    ELSE IF StartsWith(s, <<"&", "g", "t", ";">>)
         THEN <<">">> \o XmlText(SubSeq(s, 5, Len(s)))
    ELSE <<Head(s)>> \o XmlText(Tail(s))

\* The <loc> entries of the part files, concatenated in production order.
RECURSIVE AllLocs(_)
AllLocs(fs) ==
    IF fs = << >> THEN << >> ELSE Head(fs).locs \o AllLocs(Tail(fs))

LocTexts(fs) ==
    LET locs == AllLocs(fs) IN [i \in 1..Len(locs) |-> XmlText(locs[i])]

NoOutput == files = << >> /\ ~index.exists /\ indexWrites = 0

ProducerFailed == err \in {"io_error", "missing_column"}

----------------------------------------------------------------------------
(* C1 *)

\* C1: for every source column and every per-file limit >= 1, the <loc> entries
\* of the part files, concatenated in production order, are the source values in
\* source order, trimmed, with missing and blank values removed: while the loop
\* runs, the entries written followed by the buffer are a prefix of that
\* sequence, and once the remainder has been flushed they are the whole of it.
C1_LocsAreUsableLinks ==
    args.per_file >= 1 =>
        LET written == LocTexts(files)
            usable  == UsableLinks(column)
        IN  /\ IsPrefix(written, usable)
            /\ pc \in {"start", "loop", "final"} => IsPrefix(written \o buf, usable)
            /\ pc = "loop" => IsPrefix(written \o buf \o pending, usable)
            /\ pc \in {"check", "done"} => written = usable

\* A finished run that dropped a value, trimmed one and flushed a remainder.
C1_Witness ==
    /\ pc = "done"
    /\ args.per_file >= 1
    /\ \E i \in 1..Len(column) : ~IsUsable(column[i])
    /\ \E i \in 1..Len(column) : IsUsable(column[i]) /\ Trimmed(column[i]) # column[i]
    /\ Len(files[Len(files)].locs) < args.per_file
    /\ LocTexts(files) # << >>

----------------------------------------------------------------------------
(* C2 *)

\* C2: for every configured per-file limit, every part file but the last holds
\* exactly `limit` URLs, the last holds between 1 and `limit`, and n retained
\* URLs give exactly ceil(n / limit) part files.
C2_PartSizes ==
    LET n == Len(UsableLinks(column))
        limit == args.per_file
    IN  /\ \A k \in 1..(Len(files) - 1) : Len(files[k].locs) = limit
        /\ files # << >> =>
              /\ Len(files[Len(files)].locs) >= 1
              /\ Len(files[Len(files)].locs) <= limit
        /\ pc \in {"check", "done"} =>
              /\ Len(files) * limit >= n
              /\ n > 0 => (Len(files) - 1) * limit < n
              /\ n = 0 => files = << >>

----------------------------------------------------------------------------
(* C3 *)

\* base_url without its trailing slashes
IsStrippedBase(p, base_url) ==
    /\ IsPrefix(p, base_url)
    /\ \A k \in (Len(p) + 1)..Len(base_url) : base_url[k] = "/"
    /\ p # << >> => p[Len(p)] # "/"

\* C3: when the index is written it has one <sitemap> entry per part file
\* written in the run, in the order the parts were created, and the <loc> of the
\* k-th entry is the public base URL with its trailing slashes stripped, then
\* "/", then the file name of the k-th part file.
C3_IndexMatchesParts ==
    index.exists =>
        /\ Len(index.entries) = Len(files)
        /\ \A k \in 1..Len(files) :
              \E p \in {SubSeq(args.public_base_url, 1, m) :
                            m \in 0..Len(args.public_base_url)} :
                  /\ IsStrippedBase(p, args.public_base_url)
                  /\ index.entries[k].loc = p \o <<"/">> \o files[k].name

\* An index over several parts, built from a base URL that ends with slashes.
C3_Witness ==
    /\ index.exists
    /\ Len(files) >= 2
    /\ EndsWith(args.public_base_url, <<"/", "/">>)

----------------------------------------------------------------------------
(* C4 *)

DigitValue(d) == CHOOSE v \in 0..9 : Digit[v + 1] = d

RECURSIVE DecimalValue(_)
DecimalValue(s) ==
    IF s = << >> THEN 0
    ELSE 10 * DecimalValue(SubSeq(s, 1, Len(s) - 1)) + DigitValue(s[Len(s)])

\* name is basename, then five decimal digits whose value is k, then ".xml"
IsPartName(name, basename, k) ==
    /\ Len(name) = Len(basename) + 5 + 4
    /\ StartsWith(name, basename)
    /\ EndsWith(name, <<".", "x", "m", "l">>)
    /\ LET digits == SubSeq(name, Len(basename) + 1, Len(basename) + 5)
       IN  /\ \A i \in 1..5 : \E v \in 0..9 : Digit[v + 1] = digits[i]
           /\ DecimalValue(digits) = k

\* C4: the k-th part file written in a run is named {basename}{k:05d}.xml, so
\* the ordinals are contiguous from 1 in production order, none skipped and none
\* used twice (the remainder flush takes the ordinal after the last full batch),
\* and every run starts from ordinal 1.
C4_OrdinalsContiguous ==
    /\ \A k \in 1..Len(files) : IsPartName(files[k].name, args.basename, k)
    /\ \A j, k \in 1..Len(files) : j # k => files[j].name # files[k].name
    /\ part_names = [k \in 1..Len(files) |-> files[k].name]
    /\ pc = "start" => part = 1 /\ files = << >>

\* A run that wrote full batches and then a remainder under the next ordinal.
C4_Witness ==
    /\ pc = "done"
    /\ Len(files) >= 2
    /\ args.per_file >= 2
    /\ Len(files[Len(files)].locs) < args.per_file

----------------------------------------------------------------------------
(* C5 *)

\* C5: if the source has no usable URL, the run writes no part file and no
\* index file, and when it has read the whole source it ends with the
\* empty-result failure, never with success.
C5_EmptyResultFails ==
    (\A i \in 1..Len(column) : ~IsUsable(column[i])) =>
        /\ NoOutput
        /\ pc # "done"
        /\ pc = "check" => part_names = << >>
        /\ (pc = "exited" /\ ~ProducerFailed) => err = "empty_result"

\* A run over rows that are all missing or blank, ended by the empty-result failure.
C5_Witness ==
    /\ err = "empty_result"
    /\ pc = "exited"
    /\ \E i \in 1..Len(column) : column[i] = NA
    /\ \E i \in 1..Len(column) : column[i] # NA /\ IsBlank(column[i])

----------------------------------------------------------------------------
(* C6 *)

\* C6 as stated: whenever iter_links fails (column absent, source cannot be
\* opened, a read of the first or of a later chunk fails), the run has written
\* no part file and no index file.
C6_NoOutputOnProducerFailure ==
    ProducerFailed => NoOutput

\* C6 as amended: whenever iter_links fails the run does not write the index,
\* neither then nor later; if it fails before a first chunk was read, no part
\* file was written either; after a later chunk fails, the part files written
\* are those of the batches that had filled up.
C6_NoIndexOnProducerFailure ==
    ProducerFailed =>
        /\ pc = "exited"
        /\ ~index.exists
        /\ indexWrites = 0
        /\ pos = 0 => files = << >>
        /\ \A k \in 1..Len(files) : Len(files[k].locs) >= args.per_file

\* A later chunk failed to read after part files had been written.
C6_Witness ==
    /\ err = "io_error"
    /\ pos > 0
    /\ pos < Len(column)
    /\ files # << >>

----------------------------------------------------------------------------
(* C7 *)

\* C7: a run with a non-positive per-file limit is rejected: it writes no part
\* file and no index file and does not end in success.
C7_NonPositiveLimitRejected ==
    args.per_file <= 0 => NoOutput /\ pc # "done"

----------------------------------------------------------------------------
(* C8 *)

CanonicalHost ==
    <<"w", "w", "w", ".", "l", "e", "e", "l", "a", "d", "i", "a", "m", "o", "n", "d", ".", "c", "o", "m">>

CanonicalDomain == SubSeq(CanonicalHost, 5, Len(CanonicalHost))

UpperCase ==
    <<"A", "B", "C", "D", "E", "F", "G", "H", "I", "J", "K", "L", "M", "N", "O", "P", "Q", "R", "S", "T", "U", "V", "W", "X", "Y", "Z">>

LowerCase ==
    <<"a", "b", "c", "d", "e", "f", "g", "h", "i", "j", "k", "l", "m", "n", "o", "p", "q", "r", "s", "t", "u", "v", "w", "x", "y", "z">>

Lower(s) ==
    [i \in 1..Len(s) |->
        IF \E k \in 1..26 : UpperCase[k] = s[i]
        THEN LowerCase[CHOOSE k \in 1..26 : UpperCase[k] = s[i]]
        ELSE s[i]]

\* Position of the "://" that ends the scheme, 0 when there is none.
SchemeEnd(url) ==
    LET at == {i \in 1..Len(url) : StartsWith(SubSeq(url, i, Len(url)), <<":", "/", "/">>)}
    IN  IF at = {} THEN 0 ELSE CHOOSE i \in at : \A j \in at : i <= j

UrlScheme(url) == SubSeq(url, 1, SchemeEnd(url) - 1)

UrlHost(url) ==
    IF SchemeEnd(url) = 0 THEN << >>
    ELSE LET rest == SubSeq(url, SchemeEnd(url) + 3, Len(url))
             stop == {i \in 1..Len(rest) : rest[i] \in {"/", "?", "#"}}
             last == IF stop = {} THEN Len(rest)
                     ELSE (CHOOSE i \in stop : \A j \in stop : i <= j) - 1
         IN  SubSeq(rest, 1, last)

HasFragment(url) == \E i \in 1..Len(url) : url[i] = "#"

OnCanonicalSite(url) ==
    \/ Lower(UrlHost(url)) = CanonicalDomain
    \/ EndsWith(Lower(UrlHost(url)), <<".">> \o CanonicalDomain)

IsCanonical(url) ==
    /\ ~HasFragment(url)
    /\ OnCanonicalSite(url) =>
          /\ UrlScheme(url) = <<"h", "t", "t", "p", "s">>
          /\ UrlHost(url) = CanonicalHost

\* C8: every URL iter_links yields, and so every <loc> of a part file, is in
\* canonical form: no fragment, and https with the canonical www host when its
\* host is the canonical domain or a subdomain of it.
C8_LocsAreCanonical ==
    /\ \A i \in 1..Len(pending) : IsCanonical(pending[i])
    /\ \A i \in 1..Len(buf) : IsCanonical(buf[i])
    /\ \A i \in 1..Len(LocTexts(files)) : IsCanonical(LocTexts(files)[i])

----------------------------------------------------------------------------
(* C9 *)

Entity(c) ==
    IF c = "&" THEN <<"&", "a", "m", "p", ";">>
    ELSE IF c = "<" THEN <<"&", "l", "t", ";">>
    ELSE IF c = ">" THEN <<"&", "g", "t", ";">>
    ELSE <<c>>

\* Every character of s rendered on its own, left to right.
RECURSIVE Rendered(_)
Rendered(s) ==
    IF s = << >> THEN << >> ELSE Entity(Head(s)) \o Rendered(Tail(s))

BeginsEntity(s, i) ==
    LET rest == SubSeq(s, i, Len(s))
    IN  \/ StartsWith(rest, <<"&", "a", "m", "p", ";">>)
        \/ StartsWith(rest, <<"&", "l", "t", ";">>)
        \/ StartsWith(rest, <<"&", "g", "t", ";">>)

\* C9: the <loc> text written for a URL has every & rendered as &amp;, every <
\* as &lt; and every > as &gt;: it holds no raw < or >, every & in it begins
\* one of the three entities, and un-escaping it gives back the URL.
C9_EscapeRoundTrips ==
    escaped =>
        /\ loc = Rendered(u)
        /\ \A i \in 1..Len(loc) : loc[i] \notin {"<", ">"}
        /\ \A i \in 1..Len(loc) : loc[i] = "&" => BeginsEntity(loc, i)
        /\ XmlText(loc) = u

\* The URL text "&lt;" has been written, as "&amp;lt;".
C9_Witness ==
    /\ escaped
    /\ u = <<"&", "l", "t", ";">>
    /\ loc = <<"&", "a", "m", "p", ";", "l", "t", ";">>

----------------------------------------------------------------------------
(* C10 *)

\* C10: the index is written at most once in a run and only when every part
\* file of the run has been written; a failed part-file write ends the run
\* without an index; and all <lastmod> entries of the index carry one timestamp,
\* the time of the index write, which is not before the last part was written.
C10_IndexLastAndOnce ==
    /\ indexWrites <= 1
    /\ indexWrites > 0 => pc \in {"done", "exited"}
    /\ err = "write_error" => ~index.exists
    /\ index.exists =>
          /\ pc = "done"
          /\ indexWrites = 1
          /\ LocTexts(files) = UsableLinks(column)
          /\ \A k \in 1..Len(index.entries) :
                /\ index.entries[k].lastmod = index.entries[1].lastmod
                /\ index.entries[k].lastmod = clock
                /\ index.entries[k].lastmod >= lastPartTime

\* An index over several parts, written a second after the last part.
C10_Witness ==
    /\ index.exists
    /\ Len(files) >= 2
    /\ lastPartTime < clock

====
